---- MODULE Spec2Model ----
(***************************************************************************)
(* Model of mixcode/imageicc: four walkers that extract an embedded ICC    *)
(* profile from a seekable byte source (TIFF, PNG, JPEG, GIF).             *)
(*                                                                         *)
(* The byte source is the sequence `file` and the read position `pos`      *)
(* (0-based).  A Read fails when the source ends; a Seek may fail on any   *)
(* call of a source that is not `seekable`, which the actions draw with    *)
(* \E ok \in SeekAnswers. `ioErr` records that some Read or Seek of the  *)
(* source has returned an error.  err = "" is Go's nil error.              *)
(***************************************************************************)
EXTENDS Integers, Sequences, FiniteSets, TLC

VARIABLES
    walker,         \* which Load function is running: "tiff", "png", "jpg", "gif"
    file,           \* the bytes of the source
    plan,           \* how `file` was put together (never read by the walkers)
    seekable,       \* FALSE: a source whose Seek may return an error
    pos,            \* read position of the source
    pc,             \* position of the walker in its code
    err,            \* returned error ("" = nil)
    iccProfile,     \* returned profile bytes
    profileName,    \* PNG: returned profile name
    ioErr,          \* a Read or Seek of the source has returned an error
    marker,         \* JPEG: marker byte dispatched (buf[1])
    segLen,         \* JPEG: payload length of the current segment
    lenPos,         \* JPEG: position of the current segment's length field
    iccData,        \* JPEG: accumulation buffer
    iccLog,         \* JPEG: chunk index and count of each segment appended to iccData (history)
    iccLastIndex,   \* JPEG
    iccIndexMax,    \* JPEG
    numComponents,  \* JPEG
    endian,         \* TIFF: byte order of the directory
    ifd,            \* TIFF: the flattened directory
    ifdOffset,      \* TIFF: offset of the next IFD to read
    numIFD,         \* TIFF: IFDs read (history)
    chunks,         \* PNG: png.Chunk
    offset,         \* PNG: parsePNG's offset
    ch,             \* PNG: the chunk in use
    crcIn,          \* PNG: bytes written to the CRC calculator
    sz,             \* PNG: bytes read for name and method
    gifC,           \* GIF: block introducer or extension code read last (c)
    block,          \* GIF: application extension header, then the sub-blocks read
    entry,          \* TIFF: the tifDirEntry an accessor is called on
    ret             \* TIFF: what the accessor returned besides its error

vars == <<walker, file, plan, seekable, pos, pc, err, iccProfile, profileName, ioErr,
          marker, segLen, lenPos, iccData, iccLog, iccLastIndex, iccIndexMax, numComponents,
          endian, ifd, ifdOffset, numIFD, chunks, offset, ch, crcIn, sz, gifC, block,
          entry, ret>>

src == <<walker, file, plan, seekable>>
jpgVars == <<marker, segLen, lenPos, iccData, iccLog, iccLastIndex, iccIndexMax, numComponents>>
tifVars == <<endian, ifd, ifdOffset, numIFD>>
pngVars == <<chunks, offset, ch, crcIn, sz, profileName>>
gifVars == <<gifC, block>>
entVars == <<entry, ret>>

(***************************************************************************)
(* Bounds of the input space.                                              *)
(***************************************************************************)
MaxSegs == 3        \* JPEG: pieces after the SOI marker

(***************************************************************************)
(* The byte source.                                                        *)
(***************************************************************************)
RECURSIVE Concat(_)
Concat(ss) == IF ss = <<>> THEN <<>> ELSE Head(ss) \o Concat(Tail(ss))

\* n bytes are there to read at p
Avail(f, p, n) == p >= 0 /\ n >= 0 /\ p + n <= Len(f)

\* the n bytes at p
Bytes(f, p, n) == SubSeq(f, p + 1, p + n)

\* the byte at p
At(f, p) == f[p + 1]

\* what a Seek of the source may answer: TRUE = done, FALSE = an error
SeekAnswers == IF seekable THEN {TRUE} ELSE BOOLEAN

\* Seek to absolute position q: fails when the source says so, or when q < 0
SeekOK(q, ok) == ok /\ q >= 0

U16BE(b) == b[1] * 256 + b[2]
U16LE(b) == b[2] * 256 + b[1]
U32BE(b) == ((b[1] * 256 + b[2]) * 256 + b[3]) * 256 + b[4]
U32LE(b) == ((b[4] * 256 + b[3]) * 256 + b[2]) * 256 + b[1]
BytesU16BE(n) == <<(n \div 256) % 256, n % 256>>
BytesU32BE(n) == <<(n \div 16777216) % 256, (n \div 65536) % 256, (n \div 256) % 256, n % 256>>
BytesU32LE(n) == <<n % 256, (n \div 256) % 256, (n \div 65536) % 256, (n \div 16777216) % 256>>

\* the end of a call
Return(e, profile, io) ==
    /\ pc' = "done"
    /\ err' = e
    /\ iccProfile' = profile
    /\ ioErr' = (ioErr \/ io)

(***************************************************************************)
(* JPEG                                                                    *)
(***************************************************************************)
markerNONE == 0
markerSOF0 == 192
markerSOF1 == 193
markerSOF2 == 194
markerRST0 == 208
markerRST7 == 215
markerSOI == 216
markerEOI == 217
markerSOS == 218
markerDQT == 219
markerAPP0 == 224
markerAPP2 == 226

\* "ICC_PROFILE"
sigICC == <<73, 67, 67, 95, 80, 82, 79, 70, 73, 76, 69>>
\* "JFIF\0"
sigJFIF == <<74, 70, 73, 70, 0>>
\* size of {"ICC_PROFILE\0", chunknum, chunkmax}
iccHeaderLen == 14

\* a segment as it is stored: marker, length (which counts itself), payload
Seg(m, payload) == <<255, m>> \o BytesU16BE(Len(payload) + 2) \o payload

Piece(k, i, c, d, b) == [kind |-> k, idx |-> i, count |-> c, data |-> d, bytes |-> b]

\* an APP2 ICC_PROFILE segment: chunk i of c, carrying d
IccSeg(i, c, d) == Piece("icc", i, c, d, Seg(markerAPP2, sigICC \o <<0, i, c>> \o d))

\* chunk indexes and chunk counts of the ICC segments of the input files
IccIdxSet == {1, 2, 3}
IccCountSet == {0, 2, 3}

\* the payload of chunk i
IccChunk(i) == <<64 + i>>

\* what a JPEG file is made of after its SOI marker
JpgPieces ==
    { IccSeg(i, c, IccChunk(i)) : i \in IccIdxSet, c \in IccCountSet }
    \cup { IccSeg(1, 1, <<>>), IccSeg(1, 0, <<>>), IccSeg(2, 2, <<>>),
           Piece("app0", 0, 0, <<>>, Seg(markerAPP0, sigJFIF \o <<1, 1>>)),
           \* an APP0 segment of 3 payload bytes
           Piece("app0s", 0, 0, <<>>, Seg(markerAPP0, <<74, 70, 88>>)),
           Piece("app2", 0, 0, <<>>, Seg(markerAPP2, <<88>>)),
           \* an APP2 segment of "ICC_PROFILE", a 12th byte that is not null,
           \* then 1, 1 and a byte
           Piece("iccx", 1, 1, <<90>>, Seg(markerAPP2, sigICC \o <<1, 1, 1>> \o <<90>>)),
           Piece("dqt", 0, 0, <<>>, Seg(markerDQT, <<0, 16>>)),
           \* segments whose length field is 0, is 1
           Piece("len0", 0, 0, <<>>, <<255, markerDQT, 0, 0>>),
           Piece("len1", 0, 0, <<>>, <<255, markerSOF1, 0, 1>>),
           Piece("sof", 0, 0, <<>>, Seg(markerSOF0, <<8, 0, 1, 0, 1, 1, 1, 17, 0>>)),
           \* a frame header of 2 components
           Piece("sofx", 0, 0, <<>>, Seg(markerSOF2, <<8, 0, 1, 0, 1, 2, 1, 17, 0, 2, 17, 1>>)),
           \* a scan header and its entropy-coded bytes, one 0xFF stuffed
           Piece("sos", 0, 0, <<>>, Seg(markerSOS, <<1, 1, 0, 0, 63, 0>>) \o <<37, 255, 0, 42>>),
           \* a scan of two restart intervals: header, entropy-coded bytes,
           \* restart marker, entropy-coded bytes, each with one 0xFF stuffed
           Piece("sos", 0, 0, <<>>, Seg(markerSOS, <<1, 1, 0, 0, 63, 0>>) \o <<37, 255, 0, 42>>
                                        \o <<255, markerRST0>> \o <<51, 255, 0, 68>>),
           \* a restart marker and the entropy-coded bytes after it
           Piece("rst", 0, 0, <<>>, <<255, markerRST0, 51, 255, 0, 68>>),
           Piece("eoi", 0, 0, <<>>, <<255, markerEOI>>) }

PlanBytes(pl) == Concat([i \in 1..Len(pl) |-> pl[i].bytes])

JpgFile(pl) == <<255, markerSOI>> \o PlanBytes(pl)

\* where a failed ReadFull leaves the position
EofPos(f, p) == IF p > Len(f) THEN p ELSE Len(f)

\* the first position at or after p that holds 0xFF, or -1
FirstFF(f, p) ==
    LET S == { q \in p..(Len(f) - 1) : At(f, q) = 255 }
    IN  IF S = {} THEN -1 ELSE CHOOSE q \in S : \A r \in S : q <= r

IsRST(m) == markerRST0 <= m /\ m <= markerRST7

\* line 259: the chunk index must follow the last one
IccOrderOK(idx, last) == idx = last + 1

\* line 248: what is left of the payload after the ICC_PROFILE chunk header
IccPayloadLen(n) == n - iccHeaderLen

\* no accessor called, nothing returned
NoEntry == [Tag |-> 0, Type |-> 0, Count |-> 0, Value |-> <<0, 0>>]
NoRet == [fn |-> "", val |-> <<>>]

\* the state at a call, but for its entry and byte order: nothing read,
\* nothing found
StartOf(w, first) ==
    /\ walker = w
    /\ seekable \in BOOLEAN
    /\ pos = 0
    /\ pc = first
    /\ err = ""
    /\ iccProfile = <<>>
    /\ profileName = <<>>
    /\ ioErr = FALSE
    /\ marker = 0
    /\ segLen = 0
    /\ lenPos = 0
    /\ iccData = <<>>
    /\ iccLog = <<>>
    /\ iccLastIndex = 0
    /\ iccIndexMax = 0
    /\ numComponents = 0
    /\ ifd = [NumEntry |-> 0, DirEntry |-> <<>>, OffsetNextIFD |-> 0]
    /\ ifdOffset = 0
    /\ numIFD = 0
    /\ chunks = <<>>
    /\ offset = 0
    /\ ch = [DataLen |-> 0, Type |-> <<>>, DataOffset |-> 0]
    /\ crcIn = <<>>
    /\ sz = 0
    /\ gifC = 0
    /\ block = <<>>
    /\ ret = NoRet

\* the state at the call of walker w
Start(w, first) == StartOf(w, first) /\ entry = NoEntry /\ endian = "LE"

JpgInit ==
    /\ Start("jpg", "jpgSOI")
    /\ \E n \in 0..MaxSegs : \E pl \in [1..n -> JpgPieces] :
          /\ plan = pl
          /\ file = JpgFile(pl)

\* a read of the source failed
ReadFail == Return("io", <<>>, TRUE) /\ pos' = EofPos(file, pos)

\* lines 179-186: the SOI marker
JpgReadSOI ==
    /\ pc = "jpgSOI"
    /\ IF ~Avail(file, pos, 2)
       THEN ReadFail
       ELSE /\ pos' = pos + 2
            /\ IF Bytes(file, pos, 2) # <<255, markerSOI>>
               THEN Return("soi", <<>>, FALSE)
               ELSE pc' = "jpgMarker" /\ UNCHANGED <<err, iccProfile, ioErr>>
    /\ UNCHANGED <<entVars, src, jpgVars, tifVars, pngVars, gifVars>>

\* lines 195-216: read the segment marker
JpgReadMarker ==
    /\ pc = "jpgMarker"
    /\ LET q == FirstFF(file, pos)
       IN  IF ~Avail(file, pos, 2) \/ q = -1 \/ q + 1 >= Len(file)
           THEN ReadFail /\ UNCHANGED marker
           ELSE /\ pos' = q + 2
                /\ marker' = At(file, q + 1)
                /\ IF marker' = markerEOI
                   THEN Return("", <<>>, FALSE)
                   ELSE /\ pc' = IF IsRST(marker') THEN "jpgMarker" ELSE "jpgLen"
                        /\ UNCHANGED <<err, iccProfile, ioErr>>
    /\ UNCHANGED <<entVars, src, segLen, lenPos, iccData, iccLog, iccLastIndex,
                   iccIndexMax, numComponents, tifVars, pngVars, gifVars>>

\* lines 218-222: read the segment length
JpgReadLen ==
    /\ pc = "jpgLen"
    /\ IF ~Avail(file, pos, 2)
       THEN ReadFail /\ UNCHANGED <<segLen, lenPos>>
       ELSE /\ segLen' = U16BE(Bytes(file, pos, 2)) - 2
            /\ lenPos' = pos
            /\ pos' = pos + 2
            /\ pc' = "jpgSeg"
            /\ UNCHANGED <<err, iccProfile, ioErr>>
    /\ UNCHANGED <<entVars, src, marker, iccData, iccLog, iccLastIndex,
                   iccIndexMax, numComponents, tifVars, pngVars, gifVars>>

\* in.Seek(n, io.SeekCurrent) with the result dropped (lines 238, 285, 304, 314):
\* the loop goes on whether it worked or not
SkipUnchecked(p, n, ok) ==
    /\ pos' = IF SeekOK(p + n, ok) THEN p + n ELSE p
    /\ ioErr' = (ioErr \/ ~SeekOK(p + n, ok))
    /\ pc' = "jpgMarker"
    /\ UNCHANGED <<err, iccProfile>>

\* lines 225-240
JpgAPP0 ==
    /\ pc = "jpgSeg" /\ marker = markerAPP0
    /\ IF segLen > 5
       THEN IF ~Avail(file, pos, 5)
            THEN ReadFail /\ UNCHANGED segLen
            ELSE IF Bytes(file, pos, 5) # sigJFIF
                 THEN Return("app0", <<>>, FALSE) /\ pos' = pos + 5 /\ UNCHANGED segLen
                 ELSE /\ segLen' = segLen - 5
                      /\ IF segLen' > 0
                         THEN \E ok \in SeekAnswers : SkipUnchecked(pos + 5, segLen', ok)
                         ELSE /\ pos' = pos + 5 /\ pc' = "jpgMarker"
                              /\ UNCHANGED <<err, iccProfile, ioErr>>
       ELSE /\ pc' = "jpgMarker"
            /\ UNCHANGED <<pos, segLen, err, iccProfile, ioErr>>
    /\ UNCHANGED <<entVars, src, marker, lenPos, iccData, iccLog, iccLastIndex,
                   iccIndexMax, numComponents, tifVars, pngVars, gifVars>>

\* lines 241-286
JpgAPP2 ==
    /\ pc = "jpgSeg" /\ marker = markerAPP2
    /\ IF segLen >= iccHeaderLen
       THEN IF ~Avail(file, pos, iccHeaderLen)
            THEN ReadFail /\ UNCHANGED <<segLen, iccData, iccLog, iccLastIndex, iccIndexMax>>
            ELSE LET buf   == Bytes(file, pos, iccHeaderLen)
                     rest  == IccPayloadLen(segLen)
                     p     == pos + iccHeaderLen
                     idx   == buf[13]
                     count == buf[14]
                     max   == IF iccIndexMax = 0 THEN count ELSE iccIndexMax
                 IN  /\ segLen' = rest
                     /\ IF SubSeq(buf, 1, 11) = sigICC
                        THEN /\ iccIndexMax' = max
                             /\ IF max # count
                                THEN /\ Return("count", <<>>, FALSE) /\ pos' = p
                                     /\ UNCHANGED <<iccData, iccLog, iccLastIndex>>
                                ELSE IF ~IccOrderOK(idx, iccLastIndex)
                                THEN /\ Return("order", <<>>, FALSE) /\ pos' = p
                                     /\ UNCHANGED <<iccData, iccLog, iccLastIndex>>
                                ELSE IF ~Avail(file, p, rest)
                                \* io.CopyN copies what there is and fails
                                THEN /\ Return("io", <<>>, TRUE) /\ pos' = EofPos(file, p)
                                     /\ iccData' = iccData \o
                                            (IF p < Len(file) THEN Bytes(file, p, Len(file) - p) ELSE <<>>)
                                     /\ UNCHANGED <<iccLog, iccLastIndex>>
                                ELSE /\ iccData' = iccData \o Bytes(file, p, rest)
                                     /\ iccLastIndex' = iccLastIndex + 1
                                     /\ iccLog' = Append(iccLog, [idx |-> idx, count |-> count])
                                     /\ IF iccLastIndex' = max
                                        THEN Return("", iccData', FALSE) /\ pos' = p + rest
                                        \* segLen still holds the payload length here
                                        ELSE IF rest > 0
                                        THEN \E ok \in SeekAnswers : SkipUnchecked(p + rest, rest, ok)
                                        ELSE /\ pos' = p + rest /\ pc' = "jpgMarker"
                                             /\ UNCHANGED <<err, iccProfile, ioErr>>
                        ELSE /\ UNCHANGED <<iccData, iccLog, iccLastIndex, iccIndexMax>>
                             /\ IF rest > 0
                                THEN \E ok \in SeekAnswers : SkipUnchecked(p, rest, ok)
                                ELSE /\ pos' = p /\ pc' = "jpgMarker"
                                     /\ UNCHANGED <<err, iccProfile, ioErr>>
       ELSE /\ UNCHANGED <<segLen, iccData, iccLog, iccLastIndex, iccIndexMax>>
            /\ IF segLen > 0
               THEN \E ok \in SeekAnswers : SkipUnchecked(pos, segLen, ok)
               ELSE /\ pc' = "jpgMarker"
                    /\ UNCHANGED <<pos, err, iccProfile, ioErr>>
    /\ UNCHANGED <<entVars, src, marker, lenPos, numComponents, tifVars, pngVars, gifVars>>

IsSOF(m) == m \in {markerSOF0, markerSOF1, markerSOF2}

\* lines 295-302
SofComponents(n) ==
    CASE n = 6 + 3 * 1 -> 1
      [] n = 6 + 3 * 3 -> 3
      [] n = 6 + 3 * 4 -> 4
      [] OTHER -> 0

\* lines 288-304
JpgSOF ==
    /\ pc = "jpgSeg" /\ IsSOF(marker)
    /\ IF numComponents # 0
       THEN Return("multisof", <<>>, FALSE) /\ UNCHANGED <<pos, numComponents>>
       ELSE /\ numComponents' = SofComponents(segLen)
            /\ \E ok \in SeekAnswers : SkipUnchecked(pos, segLen, ok)
    /\ UNCHANGED <<entVars, src, marker, segLen, lenPos, iccData, iccLog, iccLastIndex,
                   iccIndexMax, tifVars, pngVars, gifVars>>

\* line 329
SosLenOK(n, headerLen) == ~(headerLen < 6 \/ 4 + 2 * n < headerLen \/ headerLen % 2 # 0)

\* line 361, without the test of the byte after 0xFF
IsSegmentHeaderNoStuffing(prevByte, c) == prevByte = 255

\* line 361: 0xff followed by a non-zero byte is a segment header
IsSegmentHeader(prevByte, c) == prevByte = 255 /\ c # 0

\* lines 352-364: the loop that scans for the next segment header, reading
\* at p with prevByte the byte read before; the value of readSz at the break,
\* or -1 when ReadByte fails first
RECURSIVE ScanLoop(_, _, _, _)
ScanLoop(f, p, prevByte, readSz) ==
    IF p >= Len(f) THEN -1
    ELSE IF IsSegmentHeader(prevByte, At(f, p)) THEN readSz + 1
    ELSE ScanLoop(f, p + 1, At(f, p), readSz + 1)

\* skipSOS, lines 339-371: the byte count n it returns for a header of
\* headerLen bytes at position off, or -1 when a read fails
skipSOS(f, off, headerLen) ==
    IF ~Avail(f, off, headerLen) THEN -1
    ELSE LET r == ScanLoop(f, off + headerLen, 0, headerLen)
         IN  IF r = -1 THEN -1 ELSE r - 2

\* lines 306-310 and skipSOS, lines 322-372
JpgSOS ==
    /\ pc = "jpgSeg" /\ marker = markerSOS
    /\ IF numComponents = 0
       THEN Return("nosof", <<>>, FALSE) /\ UNCHANGED pos
       ELSE IF ~SosLenOK(numComponents, segLen)
       THEN Return("soslen", <<>>, FALSE) /\ UNCHANGED pos
       ELSE \E ok1, ok2 \in SeekAnswers :
            LET n == skipSOS(file, pos, segLen)
                q == pos + n
            IN  IF ~SeekOK(pos, ok1)
                THEN Return("io", <<>>, TRUE) /\ UNCHANGED pos
                ELSE IF n = -1
                THEN ReadFail
                ELSE IF ~SeekOK(q, ok2)
                \* the buffered reader has read ahead of the scan
                THEN Return("io", <<>>, TRUE) /\ pos' \in (q + 2)..Len(file)
                ELSE /\ pos' = q
                     /\ pc' = "jpgMarker"
                     /\ UNCHANGED <<err, iccProfile, ioErr>>
    /\ UNCHANGED <<entVars, src, jpgVars, tifVars, pngVars, gifVars>>

\* lines 312-314
JpgSkip ==
    /\ pc = "jpgSeg"
    /\ marker # markerAPP0 /\ marker # markerAPP2 /\ ~IsSOF(marker) /\ marker # markerSOS
    /\ \E ok \in SeekAnswers : SkipUnchecked(pos, segLen, ok)
    /\ UNCHANGED <<entVars, src, jpgVars, tifVars, pngVars, gifVars>>

JpgNext ==
    \/ JpgReadSOI
    \/ JpgReadMarker
    \/ JpgReadLen
    \/ JpgAPP0
    \/ JpgAPP2
    \/ JpgSOF
    \/ JpgSOS
    \/ JpgSkip

SpecJPG == JpgInit /\ [][JpgNext]_vars

(***************************************************************************)
(* TIFF                                                                    *)
(***************************************************************************)
tifTypeBYTE == 1
tifTypeASCII == 2
tifTypeSHORT == 3
tifTypeLONG == 4
tifTypeSBYTE == 6
tifTypeUNDEFINED == 7
tifTypeSSHORT == 8
tifTypeSLONG == 9

\* byte size of TIF value type, indexed by type code + 1
tifTypeSize == <<0, 1, 1, 2, 4, 8, 1, 1, 2, 4, 8, 4, 8>>

\* TIFFTAG_ICCPROFILE, 0x8773
tagICC == 34675
\* the magic number of the header
tifMagic == 42

U16(e, b) == IF e = "LE" THEN U16LE(b) ELSE U16BE(b)
U32(e, b) == IF e = "LE" THEN U32LE(b) ELSE U32BE(b)
\* bst.Marshal of a uint16, a uint32
Marshal16(e, n) == IF e = "LE" THEN <<n % 256, (n \div 256) % 256>> ELSE BytesU16BE(n)
Marshal32(e, n) == IF e = "LE" THEN BytesU32LE(n) ELSE BytesU32BE(n)

\* a directory entry of an input file: its tag, type, count and value bytes
Entry(t, ty, c, d) == [tag |-> t, type |-> ty, count |-> c, data |-> d]

\* the directories the input files are made of
TifDirs ==
    LET other == Entry(256, tifTypeSHORT, 1, <<1, 0>>)
        icc2  == Entry(tagICC, tifTypeBYTE, 2, <<17, 34>>)
        icc3  == Entry(tagICC, tifTypeUNDEFINED, 3, <<17, 34, 51>>)
        icc4l == Entry(tagICC, tifTypeBYTE, 4, <<8, 0, 0, 0>>)
        icc4b == Entry(tagICC, tifTypeBYTE, 4, <<0, 0, 0, 8>>)
        icc4x == Entry(tagICC, tifTypeBYTE, 4, <<1, 2, 3, 4>>)
        icc5  == Entry(tagICC, tifTypeBYTE, 5, <<1, 2, 3, 4, 5>>)
        iccS  == Entry(tagICC, tifTypeSHORT, 1, <<7, 0>>)
    IN  { <<>>, <<other>>, <<icc2>>, <<icc3>>, <<icc4l>>, <<icc4b>>, <<icc4x>>, <<icc5>>,
          <<iccS>>, <<other, icc5>>, <<icc5, icc2>>, <<other, icc2>> }

\* IFDs of an input file
MaxIFD == 2

\* the size of a stored IFD
IfdSize(dir) == 2 + 12 * Len(dir) + 4

\* offset of the k-th IFD of a plan (of the data area for k = Len(pl) + 1)
RECURSIVE IfdOff(_, _)
IfdOff(pl, k) == IF k = 1 THEN 8 ELSE IfdOff(pl, k - 1) + IfdSize(pl[k - 1])

\* entries whose value does not fit the 4-byte value field are stored in the
\* data area, in directory order
OutOfLine(en) == Len(en.data) > 4

RECURSIVE OutBytes(_)
OutBytes(dir) ==
    IF dir = <<>> THEN <<>>
    ELSE (IF OutOfLine(Head(dir)) THEN Head(dir).data ELSE <<>>) \o OutBytes(Tail(dir))

\* offset in the data area of the value of entry i of IFD k
DataOff(pl, k, i) ==
    IfdOff(pl, Len(pl) + 1)
        + Len(Concat([j \in 1..(k - 1) |-> OutBytes(pl[j])]))
        + Len(OutBytes(SubSeq(pl[k], 1, i - 1)))

Pad4(d) == d \o [j \in 1..(4 - Len(d)) |-> 0]

EntryBytes(e, pl, k, i) ==
    LET en == pl[k][i]
    IN  Marshal16(e, en.tag) \o Marshal16(e, en.type) \o Marshal32(e, en.count)
        \o (IF OutOfLine(en) THEN Marshal32(e, DataOff(pl, k, i)) ELSE Pad4(en.data))

IfdBytes(e, pl, k) ==
    Marshal16(e, Len(pl[k]))
        \o Concat([i \in 1..Len(pl[k]) |-> EntryBytes(e, pl, k, i)])
        \o Marshal32(e, IF k < Len(pl) THEN IfdOff(pl, k + 1) ELSE 0)

TifFile(e, pl) ==
    (IF e = "LE" THEN <<73, 73>> ELSE <<77, 77>>)
        \o Marshal16(e, tifMagic) \o Marshal32(e, IF pl = <<>> THEN 0 ELSE 8)
        \o Concat([k \in 1..Len(pl) |-> IfdBytes(e, pl, k)])
        \o Concat([k \in 1..Len(pl) |-> OutBytes(pl[k])])

\* the file of a plan with the next-IFD offset of its last IFD set to the
\* offset of the first IFD: the chain is a cycle
TifFileCyclic(e, pl) ==
    LET at == IfdOff(pl, Len(pl)) + 2 + 12 * Len(pl[Len(pl)])
        f  == TifFile(e, pl)
    IN  [i \in 1..Len(f) |->
            IF i > at /\ i <= at + 4 THEN Marshal32(e, 8)[i - at] ELSE f[i]]

\* IFDs read from a file whose chain is a cycle
MaxRead == MaxIFD + 2

TifInit ==
    /\ Start("tiff", "tifHeader")
    /\ \E e \in {"LE", "BE"} : \E n \in 0..MaxIFD : \E pl \in [1..n -> TifDirs] :
          /\ plan = pl
          /\ \/ file = TifFile(e, pl)
             \/ pl # <<>> /\ file = TifFileCyclic(e, pl)

\* a Seek of the source failed
SeekFail == Return("io", <<>>, TRUE) /\ UNCHANGED pos

\* lines 205-240: the header
TifReadHeader ==
    /\ pc = "tifHeader"
    /\ IF ~Avail(file, pos, 8)
       THEN ReadFail /\ UNCHANGED <<endian, ifdOffset>>
       ELSE LET buf == Bytes(file, pos, 8)
                e   == IF buf[1] = 73 /\ buf[2] = 73 THEN "LE"
                       ELSE IF buf[1] = 77 /\ buf[2] = 77 THEN "BE" ELSE "none"
            IN  /\ pos' = pos + 8
                /\ IF e = "none" \/ U16(e, SubSeq(buf, 3, 4)) # tifMagic
                   THEN Return("header", <<>>, FALSE) /\ UNCHANGED <<endian, ifdOffset>>
                   ELSE /\ endian' = e
                        /\ ifdOffset' = U32(e, SubSeq(buf, 5, 8))
                        /\ pc' = IF ifdOffset' # 0 THEN "tifIFD" ELSE "tifSearch"
                        /\ UNCHANGED <<err, iccProfile, ioErr>>
    /\ UNCHANGED <<entVars, src, ifd, numIFD, jpgVars, pngVars, gifVars>>

\* bst.Read of a tifDirEntry, lines 24-29
ReadDirEntry(e, b) ==
    [Tag |-> U16(e, SubSeq(b, 1, 2)), Type |-> U16(e, SubSeq(b, 3, 4)),
     Count |-> U32(e, SubSeq(b, 5, 8)), Value |-> U32(e, SubSeq(b, 9, 12))]

\* line 256, going on with the offset stored in the IFD just read
NextIfdOffsetOfRead(t, l) == l.OffsetNextIFD

\* line 256: the offset the loop goes on with, given the table `t` and the
\* IFD just read `l`
NextIfdOffset(t, l) == t.OffsetNextIFD

\* lines 241-257: one IFD
TifReadIFD ==
    /\ pc = "tifIFD"
    /\ numIFD < MaxRead
    /\ \E ok \in SeekAnswers :
       IF ~SeekOK(ifdOffset, ok)
       THEN SeekFail /\ UNCHANGED <<ifd, ifdOffset, numIFD>>
       ELSE LET n == IF Avail(file, ifdOffset, 2) THEN U16(endian, Bytes(file, ifdOffset, 2)) ELSE 0
            IN  IF ~Avail(file, ifdOffset, 2) \/ ~Avail(file, ifdOffset, 2 + 12 * n + 4)
                THEN /\ Return("io", <<>>, TRUE) /\ pos' = EofPos(file, ifdOffset)
                     /\ UNCHANGED <<ifd, ifdOffset, numIFD>>
                ELSE LET lfd == [NumEntry |-> n,
                                 DirEntry |-> [i \in 1..n |->
                                     ReadDirEntry(endian, Bytes(file, ifdOffset + 2 + 12 * (i - 1), 12))],
                                 OffsetNextIFD |-> U32(endian, Bytes(file, ifdOffset + 2 + 12 * n, 4))]
                     IN  /\ pos' = ifdOffset + 2 + 12 * n + 4
                         /\ ifd' = [ifd EXCEPT !.NumEntry = @ + lfd.NumEntry,
                                               !.DirEntry = @ \o lfd.DirEntry]
                         /\ ifdOffset' = NextIfdOffset(ifd', lfd)
                         /\ numIFD' = numIFD + 1
                         /\ pc' = IF ifdOffset' # 0 THEN "tifIFD" ELSE "tifSearch"
                         /\ UNCHANGED <<err, iccProfile, ioErr>>
    /\ UNCHANGED <<entVars, src, endian, jpgVars, pngVars, gifVars>>

\* line 59, with the bound one less
FitsValueFieldBelow3(n) == n < 3

\* line 59: the data fit in the d.Value field
FitsValueField(n) == n < 4

IsByteType(t) == t \in {tifTypeBYTE, tifTypeSBYTE, tifTypeASCII, tifTypeUNDEFINED}

\* lines 57-78: tifDirEntry.fetchRawData, with the source's answer to its Seek
fetchRawData(d, e, ok) ==
    LET n == d.Count * tifTypeSize[d.Type + 1]
    IN  IF FitsValueField(n)
        THEN [b |-> SubSeq(Marshal32(e, d.Value), 1, n), err |-> "", io |-> FALSE, pos |-> pos]
        ELSE IF ~SeekOK(d.Value, ok)
        THEN [b |-> <<>>, err |-> "io", io |-> TRUE, pos |-> pos]
        ELSE IF ~Avail(file, d.Value, n)
        THEN [b |-> <<>>, err |-> "io", io |-> TRUE, pos |-> EofPos(file, d.Value)]
        ELSE [b |-> Bytes(file, d.Value, n), err |-> "", io |-> FALSE, pos |-> d.Value + n]

\* lines 80-86: tifDirEntry.getBytes
getBytes(d, e, ok) ==
    IF ~IsByteType(d.Type)
    THEN [b |-> <<>>, err |-> "type", io |-> FALSE, pos |-> pos]
    ELSE fetchRawData(d, e, ok)

\* lines 260-290: seek for the ICC profile tag in the table
TifSearch ==
    /\ pc = "tifSearch"
    /\ LET S == { i \in 1..Len(ifd.DirEntry) : ifd.DirEntry[i].Tag = tagICC }
       IN  IF S = {}
           THEN Return("", <<>>, FALSE) /\ UNCHANGED pos
           ELSE LET i == CHOOSE i \in S : \A j \in S : i <= j
                IN  \E ok \in SeekAnswers :
                    LET r == getBytes(ifd.DirEntry[i], endian, ok)
                    IN  /\ Return(r.err, IF r.err = "" THEN r.b ELSE <<>>, r.io)
                        /\ pos' = r.pos
    /\ UNCHANGED <<entVars, src, tifVars, jpgVars, pngVars, gifVars>>

TifNext ==
    \/ TifReadHeader
    \/ TifReadIFD
    \/ TifSearch

SpecTIFF == TifInit /\ [][TifNext]_vars

(***************************************************************************)
(* PNG                                                                     *)
(***************************************************************************)
\* PNG file header
pngHeader == <<137, 80, 78, 71, 13, 10, 26, 10>>
typeIHDR == <<73, 72, 68, 82>>
typeICCP == <<105, 67, 67, 80>>
typeIEND == <<73, 69, 78, 68>>

\* hash/crc32, IEEE polynomial (reflected, 0xEDB88320).  The 32-bit register
\* is kept as its two 16-bit halves <<high, low>>.
RECURSIVE Xor(_, _)
Xor(a, b) ==
    IF a = 0 THEN b ELSE IF b = 0 THEN a
    ELSE ((a + b) % 2) + 2 * Xor(a \div 2, b \div 2)

CrcShift(c) ==
    LET hi == c[1] \div 2
        lo == (c[2] \div 2) + (c[1] % 2) * 32768
    IN  IF c[2] % 2 = 1 THEN <<Xor(hi, 60856), Xor(lo, 33568)>> ELSE <<hi, lo>>

\* the table of the byte-wise algorithm: the register <<0, i>> shifted 8 times
crcTable ==
    [i \in 0..255 |->
        CrcShift(CrcShift(CrcShift(CrcShift(CrcShift(CrcShift(CrcShift(CrcShift(<<0, i>>))))))))]

CrcByte(c, b) ==
    LET t == crcTable[Xor(c[2] % 256, b)]
    IN  <<Xor(t[1], c[1] \div 256), Xor(t[2], (c[2] \div 256) + (c[1] % 256) * 256)>>

RECURSIVE CrcUpdate(_, _)
CrcUpdate(c, bs) ==
    IF bs = <<>> THEN c
    ELSE LET n == CrcByte(c, Head(bs))
         IN  IF n[1] >= 0 THEN CrcUpdate(n, Tail(bs)) ELSE n

\* Sum32 of the bytes written, as the 4 bytes a big-endian uint32 is stored in
Crc32(bs) ==
    LET c == CrcUpdate(<<65535, 65535>>, bs)
        hi == Xor(c[1], 65535)
        lo == Xor(c[2], 65535)
    IN  <<hi \div 256, hi % 256, lo \div 256, lo % 256>>

\* compress/zlib: the Adler-32 of the inflated bytes, as stored (big-endian)
RECURSIVE AdlerSums(_, _, _)
AdlerSums(bs, a, b) ==
    IF bs = <<>> THEN <<a, b>>
    ELSE AdlerSums(Tail(bs), (a + Head(bs)) % 65521, (b + ((a + Head(bs)) % 65521)) % 65521)

Adler32(bs) ==
    LET ab == AdlerSums(bs, 1, 0)
    IN  <<ab[2] \div 256, ab[2] % 256, ab[1] \div 256, ab[1] % 256>>

\* the result of zlib.NewReader followed by io.ReadAll on the bytes d that the
\* limited reader can deliver: the error, the bytes inflated before it, the
\* number of bytes of d the inflater needed, and whether NewReader failed
ZResult(e, out, used, early) == [err |-> e, out |-> out, used |-> used, early |-> early]

\* the Adler-32 trailer, at index q of d
ZTrailer(d, q, out) ==
    IF q + 3 > Len(d) THEN ZResult("zlib: unexpected EOF", out, Len(d), FALSE)
    ELSE IF SubSeq(d, q, q + 3) # Adler32(out) THEN ZResult("zlib: invalid checksum", out, q + 3, FALSE)
    ELSE ZResult("", out, q + 3, FALSE)

\* compress/flate: the deflate blocks from index p of d on.  Stored blocks
\* (BTYPE 00) are inflated; the input files hold no other block type.
RECURSIVE ZBlocks(_, _, _)
ZBlocks(d, p, out) ==
    IF p > Len(d) THEN ZResult("zlib: unexpected EOF", out, Len(d), FALSE)
    ELSE LET final == d[p] % 2
             btype == (d[p] \div 2) % 4
         IN  IF btype = 3 THEN ZResult("flate: corrupt input", out, p, FALSE)
             ELSE IF btype # 0 THEN ZResult("flate: huffman block", out, p, FALSE)
             ELSE IF p + 4 > Len(d) THEN ZResult("zlib: unexpected EOF", out, Len(d), FALSE)
             ELSE LET n  == d[p + 1] + 256 * d[p + 2]
                      nn == d[p + 3] + 256 * d[p + 4]
                  IN  IF nn # 65535 - n THEN ZResult("flate: corrupt input", out, p + 4, FALSE)
                      ELSE IF p + 4 + n > Len(d)
                      THEN ZResult("zlib: unexpected EOF", out \o SubSeq(d, p + 5, Len(d)), Len(d), FALSE)
                      ELSE IF final = 1
                      THEN ZTrailer(d, p + 5 + n, out \o SubSeq(d, p + 5, p + 4 + n))
                      ELSE ZBlocks(d, p + 5 + n, out \o SubSeq(d, p + 5, p + 4 + n))

\* zlib.NewReader: the 2-byte header (RFC 1950), then the blocks
Inflate(d) ==
    IF Len(d) < 2 THEN ZResult("zlib: unexpected EOF", <<>>, Len(d), TRUE)
    ELSE IF d[1] % 16 # 8 \/ d[1] \div 16 > 7 \/ (d[1] * 256 + d[2]) % 31 # 0
    THEN ZResult("zlib: invalid header", <<>>, 2, TRUE)
    ELSE IF (d[2] \div 32) % 2 = 1
    THEN ZResult("zlib: invalid dictionary", <<>>, 2, TRUE)
    ELSE ZBlocks(d, 3, <<>>)

\* a zlib stream of one stored block that inflates to d
ZStream(d) ==
    <<120, 1>> \o <<1>>
        \o <<Len(d) % 256, Len(d) \div 256>>
        \o <<(65535 - Len(d)) % 256, (65535 - Len(d)) \div 256>>
        \o d \o Adler32(d)

\* a chunk as stored, with the CRC c
ChunkWithCrc(type, data, c) == BytesU32BE(Len(data)) \o type \o data \o c
Chunk(type, data) == ChunkWithCrc(type, data, Crc32(type \o data))

\* the data of an iCCP chunk: name, null, compression method, compressed profile
IccpData(name, method, z) == name \o <<0>> \o <<method>> \o z

\* a chunk of an input file: what it is, the profile name and profile it was
\* made from, and its bytes
PngPiece(k, name, profile, b) == [kind |-> k, name |-> name, data |-> profile, bytes |-> b]

\* the profile name and the profile of the iCCP chunks of the input files
NameA == <<65>>
ProfileA == <<7, 9>>
ProfileB == <<5>>

IccpA == IccpData(NameA, 0, ZStream(ProfileA))

\* bit `bit` of byte j of z changed
FlipBit(z, j, bit) ==
    LET pw == 2 ^ bit
    IN  [z EXCEPT ![j] = IF (@ \div pw) % 2 = 1 THEN @ - pw ELSE @ + pw]

\* the chunks a PNG file is made of after its signature
PngPieces ==
    { PngPiece("ihdr", <<>>, <<>>, Chunk(typeIHDR, <<1>>)),
      PngPiece("iccp", NameA, ProfileA, Chunk(typeICCP, IccpA)),
      PngPiece("iccp", <<>>, ProfileB, Chunk(typeICCP, IccpData(<<>>, 0, ZStream(ProfileB)))),
      PngPiece("method", NameA, ProfileA, Chunk(typeICCP, IccpData(NameA, 1, ZStream(ProfileA)))),
      PngPiece("badcrc", NameA, ProfileA, ChunkWithCrc(typeICCP, IccpA, <<0, 0, 0, 0>>)),
      PngPiece("iend", <<>>, <<>>, Chunk(typeIEND, <<>>)) }

\* the bits of the compressed profile whose change leaves a stream of stored
\* blocks: all but the two BTYPE bits of the block header (byte 3)
FlipPlaces ==
    { jb \in (1..Len(ZStream(ProfileA))) \X (0..7) : ~(jb[1] = 3 /\ jb[2] \in {1, 2}) }

\* the iCCP chunk of NameA, ProfileA with one bit of the compressed profile
\* changed and the stored CRC kept
PngFlipped ==
    { PngPiece("flip", NameA, ProfileA,
               ChunkWithCrc(typeICCP,
                            IccpData(NameA, 0, FlipBit(ZStream(ProfileA), jb[1], jb[2])),
                            Crc32(typeICCP \o IccpA)))
          : jb \in FlipPlaces }

\* the iCCP chunk of NameA, ProfileA with 4 more bytes after the compressed
\* stream, which are the CRC of the chunk up to them, and a right or a wrong
\* stored CRC
PngPadded ==
    LET d == IccpA \o Crc32(typeICCP \o IccpA)
    IN  { PngPiece("pad", NameA, ProfileA, Chunk(typeICCP, d)),
          PngPiece("padbad", NameA, ProfileA, ChunkWithCrc(typeICCP, d, <<0, 0, 0, 0>>)) }

\* chunks of an input file, and bytes missing at the end of a cut file
MaxChunks == 3
MaxCut == 5

PngFile(pl) == pngHeader \o PlanBytes(pl)

\* f without its last n bytes
CutFile(f, n) == IF n >= Len(f) THEN <<>> ELSE SubSeq(f, 1, Len(f) - n)

PngInit ==
    /\ Start("png", "pngHeader")
    /\ \/ \E n \in 0..MaxChunks : \E pl \in [1..n -> PngPieces] : \E cut \in 0..MaxCut :
             plan = pl /\ file = CutFile(PngFile(pl), cut)
       \/ \E x \in PngFlipped \cup PngPadded : \E pl \in [1..2 -> PngPieces] :
             /\ pl[1].kind = "ihdr" /\ pl[2].kind = "iend"
             /\ plan = <<pl[1], x, pl[2]>>
             /\ file = PngFile(plan)

\* parsePNG, lines 41-61
PngReadHeader ==
    /\ pc = "pngHeader"
    /\ IF pos >= Len(file)
       THEN ReadFail /\ UNCHANGED offset
       ELSE IF ~Avail(file, pos, 8) \/ Bytes(file, pos, 8) # pngHeader
       THEN Return("header", <<>>, FALSE) /\ pos' = EofPos(file, pos) /\ UNCHANGED offset
       ELSE \E ok \in SeekAnswers :
            IF ~SeekOK(pos + 8, ok)
            THEN Return("io", <<>>, TRUE) /\ pos' = pos + 8 /\ UNCHANGED offset
            ELSE /\ pos' = pos + 8
                 /\ offset' = pos + 8
                 /\ pc' = "pngChunk"
                 /\ UNCHANGED <<err, iccProfile, ioErr>>
    /\ UNCHANGED <<entVars, src, chunks, ch, crcIn, sz, profileName, jpgVars, tifVars, gifVars>>

\* parsePNG, lines 62-92: one chunk
PngReadChunk ==
    /\ pc = "pngChunk"
    /\ IF pos >= Len(file)
       \* io.EOF at a chunk header ends the loop
       THEN /\ pc' = "pngFind"
            /\ UNCHANGED <<pos, err, iccProfile, ioErr, chunks, offset>>
       ELSE IF ~Avail(file, pos, 8)
       \* a cut chunk header: bst.Read reports what the reader gave it, the
       \* end of the file (taken as the end of the chunks) or a short read
       THEN \/ /\ pc' = "pngFind"
               /\ pos' = EofPos(file, pos)
               /\ ioErr' = TRUE
               /\ UNCHANGED <<err, iccProfile, chunks, offset>>
            \/ ReadFail /\ UNCHANGED <<chunks, offset>>
       ELSE LET c == [DataLen |-> U32BE(Bytes(file, pos, 4)),
                      Type |-> Bytes(file, pos + 4, 4),
                      DataOffset |-> offset + 8]
            IN  /\ chunks' = Append(chunks, c)
                /\ \E ok \in SeekAnswers :
                   IF ~SeekOK(pos + 8 + c.DataLen + 4, ok)
                   THEN Return("io", <<>>, TRUE) /\ pos' = pos + 8 /\ UNCHANGED offset
                   ELSE /\ pos' = pos + 8 + c.DataLen + 4
                        /\ offset' = pos'
                        /\ pc' = IF c.Type = typeIEND THEN "pngFind" ELSE "pngChunk"
                        /\ UNCHANGED <<err, iccProfile, ioErr>>
    /\ UNCHANGED <<entVars, src, ch, crcIn, sz, profileName, jpgVars, tifVars, gifVars>>

\* png.ChunkByType[type], lines 77-80: the index of each chunk of the type,
\* appended when the chunk is read; n chunks of cs are read
RECURSIVE IndexOfType(_, _, _)
IndexOfType(cs, type, n) ==
    IF n = 0 THEN <<>>
    ELSE IF cs[n].Type = type
    THEN Append(IndexOfType(cs, type, n - 1), n)
    ELSE IndexOfType(cs, type, n - 1)

ChunkByType(cs, type) == IndexOfType(cs, type, Len(cs))

\* line 151, with the last chunk taken
UsedChunkLast(l) == l[Len(l)]

\* line 151: use the first chunk
UsedChunk(l) == l[1]

\* LoadICCfromPNGWithName, lines 145-159
PngFind ==
    /\ pc = "pngFind"
    /\ LET l == ChunkByType(chunks, typeICCP)
       IN  IF Len(l) < 1
           THEN Return("", <<>>, FALSE) /\ UNCHANGED <<pos, ch, crcIn>>
           ELSE /\ ch' = chunks[UsedChunk(l)]
                /\ crcIn' = ch'.Type
                /\ \E ok \in SeekAnswers :
                   IF ~SeekOK(ch'.DataOffset, ok)
                   THEN SeekFail
                   ELSE /\ pos' = ch'.DataOffset
                        /\ pc' = "pngName"
                        /\ UNCHANGED <<err, iccProfile, ioErr>>
    /\ UNCHANGED <<entVars, src, chunks, offset, sz, profileName, jpgVars, tifVars, gifVars>>

\* the position of the first null byte at or after p, or -1
FirstNull(f, p) ==
    LET S == { q \in p..(Len(f) - 1) : At(f, q) = 0 }
    IN  IF S = {} THEN -1 ELSE CHOOSE q \in S : \A r \in S : q <= r

\* line 171, with method 1 let through
IsDeflateOrOne(m) == m <= 1

\* line 171: the compression method is 0
IsDeflate(m) == m = 0

\* lines 161-174: the name and the compression method, read through the
\* CRC calculator
PngReadName ==
    /\ pc = "pngName"
    /\ LET z == FirstNull(file, pos)
       IN  IF z = -1 \/ ~Avail(file, z + 1, 1)
           THEN /\ ReadFail
                /\ crcIn' = crcIn \o (IF pos < Len(file) THEN Bytes(file, pos, Len(file) - pos) ELSE <<>>)
                /\ UNCHANGED sz
           ELSE /\ sz' = z + 2 - pos
                /\ pos' = z + 2
                /\ crcIn' = crcIn \o Bytes(file, pos, sz')
                /\ IF ~IsDeflate(At(file, z + 1))
                   THEN Return("compression", <<>>, FALSE)
                   ELSE pc' = "pngInflate" /\ UNCHANGED <<err, iccProfile, ioErr>>
    /\ UNCHANGED <<entVars, src, chunks, offset, ch, profileName, jpgVars, tifVars, gifVars>>

\* the bytes io.LimitReader(r, n) can deliver at p
Limited(f, p, n) ==
    IF n <= 0 \/ p >= Len(f) THEN <<>>
    ELSE Bytes(f, p, IF p + n <= Len(f) THEN n ELSE Len(f) - p)

\* line 179 and 181-183: what io.ReadAll hands to iccProfile when it fails
ReadAllResult(z) == z.out

\* lines 175-183: inflate the rest of the chunk through the CRC calculator.
\* The inflater reads its input in blocks: it takes k bytes, at least the
\* ones it needs and at most the ones the limit allows.
PngInflate ==
    /\ pc = "pngInflate"
    /\ LET d == Limited(file, pos, ch.DataLen - sz)
           z == Inflate(d)
       IN  IF z.err # ""
           THEN /\ Return(z.err, IF z.early THEN <<>> ELSE ReadAllResult(z),
                          z.err = "zlib: unexpected EOF")
                /\ pos' = pos + z.used
                /\ crcIn' = crcIn \o SubSeq(d, 1, z.used)
           ELSE \E k \in z.used..Len(d) :
                /\ pos' = pos + k
                /\ crcIn' = crcIn \o SubSeq(d, 1, k)
                /\ iccProfile' = z.out
                /\ pc' = "pngCRC"
                /\ UNCHANGED <<err, ioErr>>
    /\ UNCHANGED <<entVars, src, chunks, offset, ch, sz, profileName, jpgVars, tifVars, gifVars>>

\* lines 185-196: check the chunk CRC
PngCheckCRC ==
    /\ pc = "pngCRC"
    /\ IF ~Avail(file, pos, 4)
       THEN Return("io", iccProfile, TRUE) /\ pos' = EofPos(file, pos) /\ UNCHANGED profileName
       ELSE /\ pos' = pos + 4
            /\ IF Bytes(file, pos, 4) # Crc32(crcIn)
               THEN Return("crc", iccProfile, FALSE) /\ UNCHANGED profileName
               ELSE /\ Return("", iccProfile, FALSE)
                    /\ profileName' = Bytes(file, ch.DataOffset, sz - 2)
    /\ UNCHANGED <<entVars, src, chunks, offset, ch, crcIn, sz, jpgVars, tifVars, gifVars>>

PngNext ==
    \/ PngReadHeader
    \/ PngReadChunk
    \/ PngFind
    \/ PngReadName
    \/ PngInflate
    \/ PngCheckCRC

SpecPNG == PngInit /\ [][PngNext]_vars

(***************************************************************************)
(* GIF                                                                     *)
(***************************************************************************)
gifextGraphicControl == 249
gifextComment == 254
gifextApplication == 255
gifTrailer == 59
gifImageDescriptor == 44
gifExtension == 33

\* "ICCRGBG1" and "012"
gifAppIdICC == <<73, 67, 67, 82, 71, 66, 71, 49>>
gifAppAuthICC == <<48, 49, 50>>

\* "GIF89a", width 1, height 1, flag, background colour, aspect ratio
GifHeader(version, flag) == version \o <<1, 0, 1, 0>> \o <<flag, 0, 0>>

\* n zero bytes of a colour table
Zeros(n) == [i \in 1..n |-> 0]

\* lines 120-123, 156-159: the byte size of the colour table a flag announces
ColorTableSize(flag) == IF flag \div 128 = 1 THEN (2 ^ (1 + (flag % 8))) * 3 ELSE 0

\* the header of the input files, with the colour table it announces
GifHeaders ==
    { GifHeader(<<71, 73, 70, 56, 57, 97>>, 0),
      GifHeader(<<71, 73, 70, 56, 57, 97>>, 128) \o Zeros(ColorTableSize(128)),
      GifHeader(<<71, 73, 70, 97, 57, 97>>, 0) }

\* the blocks a GIF file is made of after its header; data is the profile
\* an ICC application extension carries
GifPiece(k, d, b) == [kind |-> k, data |-> d, bytes |-> b]

GifPieces ==
    { GifPiece("image", <<>>, <<gifImageDescriptor>> \o <<0, 0, 0, 0, 1, 0, 1, 0, 0>>
                                \o <<2>> \o <<2, 76, 1, 1, 59, 0>>),
      GifPiece("image", <<>>, <<gifImageDescriptor>> \o <<0, 0, 0, 0, 1, 0, 1, 0, 128>>
                                \o Zeros(ColorTableSize(128)) \o <<2>> \o <<1, 68, 0>>),
      GifPiece("ext", <<>>, <<gifExtension, gifextGraphicControl>> \o <<4, 0, 0, 0, 0, 0>>),
      GifPiece("ext", <<>>, <<gifExtension, gifextComment>> \o <<1, 33, 0>>),
      GifPiece("app", <<>>, <<gifExtension, gifextApplication, 11>>
                                \o <<78, 69, 84, 83, 67, 65, 80, 69, 50, 46, 48>> \o <<3, 1, 0, 0, 0>>),
      GifPiece("app", <<>>, <<gifExtension, gifextApplication, 11>>
                                \o gifAppIdICC \o <<48, 49, 51>> \o <<1, 8, 0>>),
      GifPiece("appsize", <<>>, <<gifExtension, gifextApplication, 3>> \o <<1, 2, 3>> \o <<0>>),
      GifPiece("icc", <<7, 9, 5>>, <<gifExtension, gifextApplication, 11>>
                                \o gifAppIdICC \o gifAppAuthICC \o <<2, 7, 9, 1, 5, 0>>),
      GifPiece("icc", <<>>, <<gifExtension, gifextApplication, 11>>
                                \o gifAppIdICC \o gifAppAuthICC \o <<0>>),
      GifPiece("unknown", <<>>, <<85>>),
      GifPiece("trailer", <<>>, <<gifTrailer>>) }

\* blocks of an input file
MaxBlocks == 3

GifFile(h, pl) == h \o PlanBytes(pl)

GifInit ==
    /\ Start("gif", "gifHeader")
    /\ \E h \in GifHeaders : \E n \in 0..MaxBlocks : \E pl \in [1..n -> GifPieces] :
       \E cut \in 0..MaxCut :
          /\ plan = pl
          /\ file = CutFile(GifFile(h, pl), cut)

\* lines 111-114
GifVersionOK(v) ==
    /\ SubSeq(v, 1, 3) = <<71, 73, 70>>
    /\ v[4] >= 48 /\ v[4] <= 57
    /\ v[5] >= 48 /\ v[5] <= 57
    /\ v[6] >= 97 /\ v[6] <= 122

\* in.Seek(n, io.SeekCurrent) at position p, checked, and then on to state s
SeekChecked(p, n, s) ==
    \E ok \in SeekAnswers :
       IF ~SeekOK(p + n, ok)
       THEN Return("io", <<>>, TRUE) /\ pos' = p
       ELSE pos' = p + n /\ pc' = s /\ UNCHANGED <<err, iccProfile, ioErr>>

\* lines 99-129: the header and the global colour table
GifReadHeader ==
    /\ pc = "gifHeader"
    /\ IF ~Avail(file, pos, 13)
       THEN ReadFail
       ELSE IF ~GifVersionOK(Bytes(file, pos, 6))
       THEN Return("header", <<>>, FALSE) /\ pos' = pos + 13
       ELSE IF ColorTableSize(At(file, pos + 10)) > 0
       THEN SeekChecked(pos + 13, ColorTableSize(At(file, pos + 10)), "gifBlock")
       ELSE pos' = pos + 13 /\ pc' = "gifBlock" /\ UNCHANGED <<err, iccProfile, ioErr>>
    /\ UNCHANGED <<entVars, src, jpgVars, tifVars, pngVars, gifVars>>

\* lines 144-178: an image descriptor, up to its data sub-blocks
GifImage(p) ==
    IF ~Avail(file, p, 9)
    THEN ReadFail
    ELSE LET n == ColorTableSize(At(file, p + 8))
         IN  \E ok \in SeekAnswers :
             IF n > 0 /\ ~SeekOK(p + 9 + n, ok)
             THEN Return("io", <<>>, TRUE) /\ pos' = p + 9
             ELSE IF ~Avail(file, p + 9 + n, 1)
             THEN Return("io", <<>>, TRUE) /\ pos' = EofPos(file, p + 9 + n)
             ELSE /\ pos' = p + 9 + n + 1
                  /\ pc' = "gifSkip"
                  /\ UNCHANGED <<err, iccProfile, ioErr>>

\* line 202, without the test of the auth code
IsICCAppIdOnly(b) == SubSeq(b, 1, 8) = gifAppIdICC

\* line 202: the application extension of the ICC profile
IsICCApp(b) == SubSeq(b, 1, 8) = gifAppIdICC /\ SubSeq(b, 9, 11) = gifAppAuthICC

\* lines 189-216: an application extension, up to its data sub-blocks
GifApplication(p) ==
    IF ~Avail(file, p, 1) \/ ~Avail(file, p + 1, At(file, p))
    THEN ReadFail /\ UNCHANGED block
    ELSE LET n == At(file, p)
             b == IF n = 0 THEN <<>> ELSE Bytes(file, p + 1, n)
         IN  /\ pos' = p + 1 + n
             /\ IF Len(b) # 8 + 3
                THEN Return("appsize", <<>>, FALSE) /\ block' = b
                ELSE IF IsICCApp(b)
                \* line 204: block is now what readBlocks collects
                THEN pc' = "gifRead" /\ block' = <<>> /\ UNCHANGED <<err, iccProfile, ioErr>>
                ELSE pc' = "gifSkip" /\ block' = b /\ UNCHANGED <<err, iccProfile, ioErr>>

\* lines 132-229: one block, up to its data sub-blocks
GifReadBlock ==
    /\ pc = "gifBlock"
    /\ IF ~Avail(file, pos, 1)
       THEN ReadFail /\ UNCHANGED gifVars
       ELSE IF At(file, pos) = gifTrailer
       THEN Return("", <<>>, FALSE) /\ pos' = pos + 1 /\ gifC' = gifTrailer /\ UNCHANGED block
       ELSE IF At(file, pos) = gifImageDescriptor
       THEN GifImage(pos + 1) /\ gifC' = gifImageDescriptor /\ UNCHANGED block
       ELSE IF At(file, pos) = gifExtension
       THEN IF ~Avail(file, pos + 1, 1)
            THEN ReadFail /\ UNCHANGED gifVars
            ELSE /\ gifC' = At(file, pos + 1)
                 /\ IF gifC' = gifextApplication
                    THEN GifApplication(pos + 2)
                    ELSE /\ pos' = pos + 2
                         /\ pc' = "gifSkip"
                         /\ UNCHANGED <<err, iccProfile, ioErr, block>>
       ELSE Return("chunk", <<>>, FALSE) /\ pos' = pos + 1 /\ gifC' = At(file, pos) /\ UNCHANGED block
    /\ UNCHANGED <<entVars, src, jpgVars, tifVars, pngVars>>

\* skipBlocks, lines 78-97: one sub-block
GifSkipBlocks ==
    /\ pc = "gifSkip"
    /\ IF ~Avail(file, pos, 1)
       THEN ReadFail
       ELSE IF At(file, pos) = 0
       THEN pos' = pos + 1 /\ pc' = "gifBlock" /\ UNCHANGED <<err, iccProfile, ioErr>>
       ELSE SeekChecked(pos + 1, At(file, pos), "gifSkip")
    /\ UNCHANGED <<entVars, src, jpgVars, tifVars, pngVars, gifVars>>

\* readBlocks, lines 55-75, and line 209: one sub-block of the profile
GifReadBlocks ==
    /\ pc = "gifRead"
    /\ IF ~Avail(file, pos, 1) \/ ~Avail(file, pos + 1, At(file, pos))
       THEN ReadFail /\ UNCHANGED block
       ELSE IF At(file, pos) = 0
       THEN /\ Return("", block, FALSE)
            /\ pos' = pos + 1
            /\ UNCHANGED block
       ELSE /\ block' = block \o Bytes(file, pos + 1, At(file, pos))
            /\ pos' = pos + 1 + At(file, pos)
            /\ UNCHANGED <<pc, err, iccProfile, ioErr>>
    /\ UNCHANGED <<entVars, src, gifC, jpgVars, tifVars, pngVars>>

GifNext ==
    \/ GifReadHeader
    \/ GifReadBlock
    \/ GifSkipBlocks
    \/ GifReadBlocks

SpecGIF == GifInit /\ [][GifNext]_vars

(***************************************************************************)
(* TIFF: the accessors of a directory entry, called on their own.          *)
(***************************************************************************)
tifTypeDOUBLE == 12

\* A uint32 that may pass 2^31 - 1 is kept as its 16-bit halves <<high, low>>:
\* bst.Read of tifDirEntry.Value from the 4 bytes of the value field
WideU32(e, b) ==
    IF e = "LE" THEN <<U16LE(SubSeq(b, 3, 4)), U16LE(SubSeq(b, 1, 2))>>
    ELSE <<U16BE(SubSeq(b, 1, 2)), U16BE(SubSeq(b, 3, 4))>>

\* bst.Marshal of such a uint32
MarshalWide(e, v) ==
    IF e = "LE" THEN Marshal16(e, v[2]) \o Marshal16(e, v[1])
    ELSE Marshal16(e, v[1]) \o Marshal16(e, v[2])

\* an int64 n as <<high, low>> with low in 0..65535: n = high * 65536 + low
Int64(n) == <<n \div 65536, n % 65536>>

\* the conversion of an unsigned x below m to the signed type of that width
Signed(x, m) == IF x >= m \div 2 THEN x - m ELSE x

\* the Value of an entry is below 2^31
Narrow(v) == v[1] < 32768

\* lines 57-78: fetchRawData of an entry whose Value is kept in halves
fetchRawDataWide(d, e, ok) ==
    IF Narrow(d.Value)
    THEN fetchRawData([d EXCEPT !.Value = d.Value[1] * 65536 + d.Value[2]], e, ok)
    ELSE [b |-> SubSeq(MarshalWide(e, d.Value), 1, d.Count * tifTypeSize[d.Type + 1]),
          err |-> "", io |-> FALSE, pos |-> pos]

\* lines 98-100: remove the trailing zero
StripTrailing(buf) == IF Len(buf) > 1 THEN SubSeq(buf, 1, Len(buf) - 1) ELSE buf

\* lines 88-102: tifDirEntry.getString
getString(d, e, ok) ==
    IF d.Type # tifTypeASCII
    THEN [val |-> <<>>, err |-> "type", io |-> FALSE, pos |-> pos]
    ELSE LET r == fetchRawDataWide(d, e, ok)
         IN  IF r.err # ""
             THEN [val |-> <<>>, err |-> r.err, io |-> r.io, pos |-> r.pos]
             ELSE [val |-> StripTrailing(r.b), err |-> "", io |-> FALSE, pos |-> r.pos]

\* lines 105-123: tifDirEntry.getInt
getInt(d) ==
    IF d.Count # 1 THEN [val |-> Int64(0), err |-> "count"]
    ELSE IF d.Type \in {tifTypeBYTE, tifTypeSHORT, tifTypeLONG, tifTypeUNDEFINED}
    THEN [val |-> d.Value, err |-> ""]
    ELSE IF d.Type = tifTypeSBYTE
    THEN [val |-> Int64(Signed(d.Value[2] % 256, 256)), err |-> ""]
    ELSE IF d.Type = tifTypeSSHORT
    THEN [val |-> Int64(Signed(d.Value[2], 65536)), err |-> ""]
    ELSE IF d.Type = tifTypeSLONG
    THEN [val |-> <<Signed(d.Value[1], 65536), d.Value[2]>>, err |-> ""]
    ELSE [val |-> Int64(0), err |-> "type"]

\* lines 128-135
IsIntType(t) ==
    t \in {tifTypeBYTE, tifTypeSHORT, tifTypeLONG, tifTypeUNDEFINED,
           tifTypeSBYTE, tifTypeSSHORT, tifTypeSLONG}

IsSignedType(t) == t \in {tifTypeSBYTE, tifTypeSSHORT, tifTypeSLONG}

\* lines 142-196: bst.Unmarshal of buf into []int64 as []byte, []uint16,
\* []uint32, []int8, []int16, []int32: decoded element-wise at the width of
\* the type, in byte order e, then widened to int64
UnmarshalInts(buf, e, t) ==
    LET w == tifTypeSize[t + 1]
        El(i) == SubSeq(buf, (i - 1) * w + 1, i * w)
    IN  [i \in 1..(Len(buf) \div w) |->
            IF w = 1 THEN Int64(IF IsSignedType(t) THEN Signed(El(i)[1], 256) ELSE El(i)[1])
            ELSE IF w = 2
            THEN Int64(IF IsSignedType(t) THEN Signed(U16(e, El(i)), 65536) ELSE U16(e, El(i)))
            ELSE LET v == WideU32(e, El(i))
                 IN  IF IsSignedType(t) THEN <<Signed(v[1], 65536), v[2]>> ELSE v]

\* lines 126-200: tifDirEntry.getIntArray
getIntArray(d, e, ok) ==
    IF ~IsIntType(d.Type)
    THEN [val |-> <<>>, err |-> "type", io |-> FALSE, pos |-> pos]
    ELSE LET r == fetchRawDataWide(d, e, ok)
         IN  IF r.err # ""
             THEN [val |-> <<>>, err |-> r.err, io |-> r.io, pos |-> r.pos]
             ELSE [val |-> UnmarshalInts(r.b, e, d.Type), err |-> "", io |-> FALSE, pos |-> r.pos]

\* the entries the accessors are called on: type codes, counts, and the bytes
\* the 4-byte value field is made of
EntTypes == tifTypeBYTE..tifTypeDOUBLE
MaxCount == 5
FieldBytes == {0, 4, 65, 255}

\* the source the out-of-line data are read from
EntFile == <<65, 66, 67, 0, 72, 105, 0, 0, 74, 75>>

\* a call of an accessor on an entry read from 12 directory bytes; `plan` is
\* the value field. A Value of 2^31 or more is an inline value, never an offset.
EntInit ==
    /\ StartOf("entry", "entCall")
    /\ file = EntFile
    /\ \E e \in {"LE", "BE"} : \E ty \in EntTypes : \E c \in 0..MaxCount :
       \E fb \in [1..4 -> FieldBytes] :
          /\ plan = fb
          /\ entry = [Tag |-> 270, Type |-> ty, Count |-> c, Value |-> WideU32(e, fb)]
          /\ Narrow(entry.Value) \/ FitsValueField(c * tifTypeSize[ty + 1])
          /\ endian = e

EntReturn(fn, r) ==
    /\ Return(r.err, <<>>, r.io)
    /\ pos' = r.pos
    /\ ret' = [fn |-> fn, val |-> r.val]
    /\ UNCHANGED <<entry, src, jpgVars, tifVars, pngVars, gifVars>>

EntGetString ==
    /\ pc = "entCall"
    /\ \E ok \in SeekAnswers : EntReturn("getString", getString(entry, endian, ok))

EntGetInt ==
    /\ pc = "entCall"
    /\ LET r == getInt(entry)
       IN  EntReturn("getInt", [val |-> r.val, err |-> r.err, io |-> FALSE, pos |-> pos])

EntGetIntArray ==
    /\ pc = "entCall"
    /\ \E ok \in SeekAnswers : EntReturn("getIntArray", getIntArray(entry, endian, ok))

EntNext ==
    \/ EntGetString
    \/ EntGetInt
    \/ EntGetIntArray

SpecEntry == EntInit /\ [][EntNext]_vars

(***************************************************************************)
(* A call of any of the four walkers.                                      *)
(***************************************************************************)
Init == JpgInit \/ TifInit \/ PngInit \/ GifInit

Next == JpgNext \/ TifNext \/ PngNext \/ GifNext

Spec == Init /\ [][Next]_vars

\* a call runs on: the walkers are sequential code with no suspension point
\* (no cancellation, no timeout, no waiting on another party)
\* The step at "pngCRC" is enabled exactly there and leaves that place, so
\* weak fairness of it is that the call is not at "pngCRC" for ever.
FairSpec ==
    /\ Init /\ [][Next]_vars
    /\ WF_vars(pc # "pngCRC" /\ Next)
    /\ []<>(pc # "pngCRC")

(***************************************************************************)
(* Claims                                                                  *)
(***************************************************************************)
\* places of the ICC_PROFILE segments in a JPEG plan
IccAt(pl) == { i \in 1..Len(pl) : pl[i].kind = "icc" }

\* the ICC_PROFILE segment at place i is the IccRank-th of the file
IccRank(pl, i) == Cardinality({ j \in IccAt(pl) : j <= i })

\* segments that the walker skips by their length field
BenignKinds == {"icc", "app0", "app2", "dqt"}

\* the position after piece i of a JPEG plan
PieceEnd(pl, i) == 2 + Len(PlanBytes(SubSeq(pl, 1, i)))

\* the chunks of the ICC_PROFILE segments at places 1..i, in file order
IccDataUpTo(pl, i) ==
    Concat([j \in 1..i |-> IF pl[j].kind = "icc" THEN pl[j].data ELSE <<>>])

\* C3: every ICC_PROFILE segment appended to the profile declares the
\* chunk-count of the first one, whatever that count is (0..255): a segment
\* with another count fails the call and is never part of a profile.
C3_OneChunkCount ==
    \A i \in DOMAIN iccLog : iccLog[i].count = iccLog[1].count

\* C4: the byte pair dispatched as a marker, and followed by a length field,
\* is never 0xFF 0x00.
C4_NoZeroMarker ==
    pc \in {"jpgLen", "jpgSeg"} => marker # markerNONE

\* C5: once a Read or Seek of the source has returned an error the call has
\* returned an error; no parsing goes on after it.
C5_IoErrorIsFatal ==
    ioErr => (pc = "done" /\ err # "")

\* the file's ICC_PROFILE segments up to the n-th are chunks 1..n of n, in
\* order, with only length-skipped segments before them
InOrderICC(pl, n) ==
    /\ Cardinality(IccAt(pl)) >= n
    /\ \A i \in IccAt(pl) :
          IccRank(pl, i) <= n =>
              /\ pl[i].idx = IccRank(pl, i)
              /\ pl[i].count = n
              /\ \A j \in 1..i : pl[j].kind \in BenignKinds

\* C8: chunks 1..N of N in file order: the call returns their concatenation,
\* without error, with the source positioned right after the N-th segment.
C8_InOrderProfile ==
    \A n \in 1..Len(plan) : \A i \in IccAt(plan) :
        (walker = "jpg" /\ pc = "done" /\ seekable
            /\ InOrderICC(plan, n) /\ IccRank(plan, i) = n)
        => /\ err = ""
           /\ iccProfile = IccDataUpTo(plan, i)
           /\ pos = PieceEnd(plan, i)

\* the ICC_PROFILE segment at place i is the first one out of sequence: the
\* ones before it are chunks 1, 2, ... in order, all declare the same count
\* as it does, and they do not complete the profile
OutOfOrderAt(pl, i) ==
    /\ i \in IccAt(pl)
    /\ \A j \in 1..i : pl[j].kind \in BenignKinds
    /\ \A j \in IccAt(pl) :
          j <= i => pl[j].count = pl[i].count
    /\ \A j \in IccAt(pl) :
          j < i => pl[j].idx = IccRank(pl, j) /\ pl[j].idx # pl[j].count
    /\ pl[i].idx # IccRank(pl, i)

\* C9: an ICC_PROFILE segment whose chunk-index does not follow the last one
\* fails the call with the order error, and nothing of it is appended.
C9_OutOfOrderFails ==
    \A i \in 1..Len(plan) :
        (walker = "jpg" /\ pc = "done" /\ seekable /\ OutOfOrderAt(plan, i))
        => /\ err = "order"
           /\ iccProfile = <<>>
           /\ iccData = IccDataUpTo(plan, i - 1)

\* places of the entries with the ICC tag in a directory of a TIFF plan
IccEntries(dir) == { i \in 1..Len(dir) : dir[i].tag = tagICC }

\* the first entry with the ICC tag of a directory that has one
FirstIcc(dir) == dir[CHOOSE i \in IccEntries(dir) : \A j \in IccEntries(dir) : i <= j]

\* C2: the entries of every IFD of the chain are searched: when the first IFD
\* has no ICC tag and the second holds a byte-typed one, the call returns
\* that entry's bytes.
C2_SecondIfdSearched ==
    (walker = "tiff" /\ pc = "done" /\ seekable /\ Len(plan) >= 2
        /\ IccEntries(plan[1]) = {} /\ IccEntries(plan[2]) # {}
        /\ FirstIcc(plan[2]).type = tifTypeBYTE)
    => (err = "" /\ iccProfile = FirstIcc(plan[2]).data)

\* C10: a byte-typed ICC entry of at most 4 bytes (4 included) is resolved
\* from its value field: the call returns the first count * typeSize bytes
\* of the field as stored.
C10_InlineUpToFour ==
    (walker = "tiff" /\ pc = "done" /\ seekable /\ Len(plan) >= 1
        /\ IccEntries(plan[1]) # {}
        /\ IsByteType(FirstIcc(plan[1]).type)
        /\ FirstIcc(plan[1]).count * tifTypeSize[FirstIcc(plan[1]).type + 1] <= 4)
    => (err = "" /\ iccProfile = FirstIcc(plan[1]).data)

\* the iCCP chunk the PNG walker used
FoundICCP == walker = "png" /\ ChunkByType(chunks, typeICCP) # <<>> /\ pc \in {"pngName", "pngInflate", "pngCRC", "done"}

\* C1: whenever a call returns an error the returned profile buffer is empty
\* (all walkers; for PNG also when inflation, the read of the trailing CRC or
\* the CRC comparison fails).
C1_NoPartialResult == (pc = "done" /\ err # "") => iccProfile = <<>>

\* C6: for a PNG whose iCCP chunk has one bit of its compressed profile changed
\* and its stored CRC unchanged, the call fails with the CRC-mismatch error.
C6_BitFlipIsCrcMismatch ==
    (walker = "png" /\ pc = "done" /\ seekable /\ file = PngFile(plan)
        /\ \E i \in 1..Len(plan) : plan[i].kind = "flip")
    => err = "crc"

\* C7: a profile is returned without error only if the 4 bytes stored after
\* the declared data of the iCCP chunk are the CRC-32 of the chunk type and
\* all the declared data bytes as stored in the file.
C7_CrcCoversDeclaredData ==
    (FoundICCP /\ pc = "done" /\ err = "")
    => /\ Avail(file, ch.DataOffset + ch.DataLen, 4)
       /\ Bytes(file, ch.DataOffset + ch.DataLen, 4)
              = Crc32(ch.Type \o Bytes(file, ch.DataOffset, ch.DataLen))

\* the walk has reached the terminator of the format: the IEND chunk, the
\* End-of-Image marker, the GIF trailer, the last IFD of the chain
TerminatorReached ==
    \/ walker = "png" /\ chunks # <<>> /\ chunks[Len(chunks)].Type = typeIEND
    \/ walker = "jpg" /\ marker = markerEOI
    \/ walker = "gif" /\ gifC = gifTrailer
    \/ walker = "tiff" /\ numIFD = Len(plan)

\* the walk has found a profile-carrying structure and returned from it
ProfileFound ==
    \/ FoundICCP
    \/ walker = "jpg" /\ marker = markerAPP2
    \/ walker = "gif" /\ gifC = gifextApplication
    \/ walker = "tiff" /\ \E i \in 1..Len(ifd.DirEntry) : ifd.DirEntry[i].Tag = tagICC

\* C11: an empty result with no error is returned only after a walk that
\* reached the terminator of the format (IEND, End-of-Image, the GIF trailer,
\* the terminal IFD); an input that ends before it never yields
\* empty-without-error.
C11_NoDowngrade ==
    (pc = "done" /\ err = "" /\ iccProfile = <<>>) => (TerminatorReached \/ ProfileFound)

\* a well-formed JPEG without ICC_PROFILE segment: segments, at most one frame
\* header, scans after it, restart intervals after a scan, End-of-Image last
WellFormedJpg(pl) ==
    /\ pl # <<>> /\ pl[Len(pl)].kind = "eoi"
    /\ \A i \in 1..(Len(pl) - 1) : pl[i].kind \in {"app0", "app2", "dqt", "sof", "sos", "rst"}
    /\ Cardinality({ i \in 1..Len(pl) : pl[i].kind = "sof" }) <= 1
    /\ \A i \in 1..Len(pl) : pl[i].kind = "sos" => \E j \in 1..(i - 1) : pl[j].kind = "sof"
    /\ \A i \in 1..Len(pl) : pl[i].kind = "rst" => i > 1 /\ pl[i - 1].kind \in {"sos", "rst"}

\* a well-formed PNG without iCCP chunk: IHDR first, IEND last
WellFormedPng(pl) ==
    /\ Len(pl) >= 2 /\ pl[1].kind = "ihdr" /\ pl[Len(pl)].kind = "iend"
    /\ \A i \in 2..(Len(pl) - 1) : pl[i].kind = "ihdr"

\* a well-formed GIF without ICC application extension: images and
\* extensions, the trailer last
WellFormedGif(pl) ==
    /\ pl # <<>> /\ pl[Len(pl)].kind = "trailer"
    /\ \A i \in 1..(Len(pl) - 1) : pl[i].kind \in {"image", "ext", "app"}

\* the input is a well-formed file of its format with no profile in it
WellFormedNoProfile ==
    \/ walker = "jpg" /\ WellFormedJpg(plan)
    \/ walker = "tiff" /\ (\A k \in 1..Len(plan) : IccEntries(plan[k]) = {})
           /\ \E e \in {"LE", "BE"} : file = TifFile(e, plan)
    \/ walker = "png" /\ WellFormedPng(plan) /\ file = PngFile(plan)
    \/ walker = "gif" /\ WellFormedGif(plan)
           /\ \E h \in GifHeaders : GifVersionOK(SubSeq(h, 1, 6)) /\ file = GifFile(h, plan)

\* C12: a well-formed file with no profile-carrying structure yields an empty
\* result and no error (JPEG: also with frame header, scans, restart markers
\* and byte-stuffed entropy-coded data before End-of-Image).
C12_NoProfileIsEmpty ==
    (pc = "done" /\ seekable /\ WellFormedNoProfile) => (err = "" /\ iccProfile = <<>>)

\* C13: after a SOF0/SOF1/SOF2 segment has been processed without error the
\* recorded component count is 1, 3 or 4 and the payload length of the segment
\* was 6+3*n for that n; a frame header of another payload length is not
\* accepted with the component count left 0.
C13_SofSetsComponents ==
    [][(pc = "jpgSeg" /\ IsSOF(marker) /\ pc' # "done")
          => (numComponents' \in {1, 3, 4} /\ segLen = 6 + 3 * numComponents')]_vars

\* the frame header pieces, and the pieces the walker passes by their length
\* field before the first scan
SofKinds == {"sof", "sofx"}
BeforeScanKinds == {"app0", "app2", "dqt"} \cup SofKinds

\* piece j is a SOF segment met after an earlier SOF segment and before any scan
SecondSofAt(pl, j) ==
    /\ pl[j].kind \in SofKinds
    /\ \A i \in 1..(j - 1) : pl[i].kind \in BeforeScanKinds
    /\ \E i \in 1..(j - 1) : pl[i].kind \in SofKinds

\* piece j is the first SOS segment and a SOF segment precedes it
SosAfterSofAt(pl, j) ==
    /\ pl[j].kind = "sos"
    /\ \A i \in 1..(j - 1) : pl[i].kind \in BeforeScanKinds
    /\ \E i \in 1..(j - 1) : pl[i].kind \in SofKinds

\* C14: a SOF0/SOF1/SOF2 marker met after an earlier one and before any scan
\* fails the call with the multiple-frame-headers error, whatever the payload
\* length of the earlier frame header; an SOS marker fails with the
\* missing-frame-header error only when no SOF marker preceded it.
C14_FrameHeaderCardinality ==
    (walker = "jpg" /\ pc = "done" /\ seekable)
    => /\ (\E j \in 1..Len(plan) : SecondSofAt(plan, j)) => err = "multisof"
       /\ (\E j \in 1..Len(plan) : SosAfterSofAt(plan, j)) => err # "nosof"

\* the first position at or after p that holds 0xFF followed by a non-zero
\* byte, or -1 when there is none
NextMarkerPos(f, p) ==
    LET S == { q \in p..(Len(f) - 2) : At(f, q) = 255 /\ At(f, q + 1) # 0 }
    IN  IF S = {} THEN -1 ELSE CHOOSE q \in S : \A r \in S : q <= r

\* C15: skipSOS, for an SOS segment of accepted header length after a frame
\* header, leaves the read position at the first 0xFF after the SOS header
\* that is followed by a non-zero byte (never at a stuffed 0xFF 0x00), and the
\* byte count it returns is the header length plus the scan bytes before it.
C15_SkipSOS ==
    [][(pc = "jpgSeg" /\ marker = markerSOS /\ pc' = "jpgMarker")
          => LET q == NextMarkerPos(file, pos + segLen)
             IN  /\ q # -1
                 /\ pos' = q
                 /\ At(file, pos') = 255 /\ At(file, pos' + 1) # 0
                 /\ skipSOS(file, pos, segLen) = segLen + (q - (pos + segLen))]_vars

\* a scan with a stuffed 0xFF 0x00 in it has been skipped
C15_Witness ==
    /\ walker = "jpg" /\ pc = "jpgMarker" /\ marker = markerSOS /\ numComponents # 0
    /\ \E q \in (lenPos + 2 + segLen)..(pos - 2) : At(file, q) = 255 /\ At(file, q + 1) = 0
    /\ At(file, pos) = 255

\* the input is a whole GIF file with a valid header
GifIntact ==
    \E h \in GifHeaders : GifVersionOK(SubSeq(h, 1, 6)) /\ file = GifFile(h, plan)

\* the position after block i of the plan of a whole GIF file
GifPieceEnd(pl, i) == Len(file) - Len(PlanBytes(pl)) + Len(PlanBytes(SubSeq(pl, 1, i)))

\* block j is an ICC application extension that comes after images and
\* extensions, one of them an application extension of another identifier or
\* auth code
IccAfterOtherApp(pl, j) ==
    /\ pl[j].kind = "icc"
    /\ \A i \in 1..(j - 1) : pl[i].kind \in {"app", "image", "ext"}
    /\ \E i \in 1..(j - 1) : pl[i].kind = "app"

\* C16: an application extension that is not "ICCRGBG1"/"012" is skipped in
\* full, sub-blocks and terminator; block parsing resumes at the next block
\* introducer, and an ICC application extension later in the file is found and
\* its concatenated sub-blocks are returned.
C16_OtherAppSkipped ==
    \A j \in 1..Len(plan) :
       (walker = "gif" /\ seekable /\ GifIntact /\ IccAfterOtherApp(plan, j))
       => /\ pc = "gifBlock" => \E i \in 0..(j - 1) : pos = GifPieceEnd(plan, i)
          /\ pc = "done" => (err = "" /\ iccProfile = plan[j].data /\ pos = GifPieceEnd(plan, j))

\* a profile has been returned from an ICC application extension that follows
\* another application extension
C16_Witness ==
    /\ walker = "gif" /\ seekable /\ GifIntact /\ pc = "done" /\ err = ""
    /\ Len(plan) >= 2 /\ IccAfterOtherApp(plan, 2)
    /\ iccProfile = <<7, 9, 5>>

\* the place in the flattened table of the entry the tag search stops at
FoundEntry == CHOOSE i \in 1..Len(ifd.DirEntry) :
                 /\ ifd.DirEntry[i].Tag = tagICC
                 /\ \A j \in 1..(i - 1) : ifd.DirEntry[j].Tag # tagICC

\* the file offset of the value field of entry i of the first IFD
ValueFieldOffset(i) == 8 + 2 + 12 * (i - 1) + 8

IccpKinds == {"iccp", "method", "badcrc", "flip", "pad", "padbad"}

\* piece i is the first iCCP chunk of the plan, and no IEND chunk precedes it
FirstIccpAt(pl, i) ==
    /\ pl[i].kind \in IccpKinds
    /\ \A j \in 1..(i - 1) : pl[j].kind \notin IccpKinds \cup {"iend"}

\* C18: a PNG whose first iCCP chunk has a compression method other than 0
\* fails with the unsupported-compression error before any inflation is
\* attempted, and returns no profile and no name.
C18_UnsupportedCompression ==
    (walker = "png" /\ seekable /\ file = PngFile(plan)
        /\ \E i \in 1..Len(plan) : FirstIccpAt(plan, i) /\ plan[i].kind = "method")
    => /\ pc \notin {"pngInflate", "pngCRC"}
       /\ pc = "done" => (err = "compression" /\ iccProfile = <<>> /\ profileName = <<>>)

\* the call has failed on an iCCP chunk of compression method 1
C18_Witness ==
    /\ walker = "png" /\ seekable /\ file = PngFile(plan) /\ pc = "done"
    /\ \E i \in 1..Len(plan) : FirstIccpAt(plan, i) /\ plan[i].kind = "method"
    /\ err = "compression"
    /\ At(file, ch.DataOffset + sz - 1) = 1

\* C19: an APP2 segment is an ICC profile segment only if its payload begins
\* with "ICC_PROFILE" and a null byte; one whose 12th payload byte is not null
\* is skipped as an unrecognized segment and adds nothing to the profile or to
\* the index and count state.
C19_FullSignature ==
    (walker = "jpg" /\ IccAt(plan) = {} /\ \E i \in 1..Len(plan) : plan[i].kind = "iccx")
    => /\ iccData = <<>> /\ iccLastIndex = 0 /\ iccIndexMax = 0
       /\ iccProfile = <<>>

\* the position of the data of chunk i of a PNG plan
PngDataOffset(pl, i) == Len(pngHeader) + Len(PlanBytes(SubSeq(pl, 1, i - 1))) + 8

\* the chunk types of the input files
PngTypes == {typeIHDR, typeICCP, typeIEND}

\* C20: the result of the PNG walker depends only on the first iCCP chunk in
\* file order among the chunks up to and including IEND: the index lists the
\* positions of each type in ascending file order, later iCCP chunks do not
\* alter the result, and chunks after IEND are never indexed or used.
C20_FirstIccpOnly ==
    (walker = "png" /\ seekable /\ file = PngFile(plan))
    => /\ \A t \in PngTypes :
             LET l == ChunkByType(chunks, t)
             IN  /\ \A a, b \in DOMAIN l : a < b => l[a] < l[b]
                 /\ \A a \in DOMAIN l : chunks[l[a]].DataOffset = PngDataOffset(plan, l[a])
       /\ \A i \in 1..Len(plan) :
             (FirstIccpAt(plan, i) /\ plan[i].kind = "iccp")
             => /\ pc \in {"pngName", "pngInflate", "pngCRC"}
                      => ch.DataOffset = PngDataOffset(plan, i)
                /\ pc = "done"
                      => (err = "" /\ iccProfile = plan[i].data /\ profileName = plan[i].name)
       /\ \A i \in 1..Len(plan) :
             (plan[i].kind = "iend" /\ \A j \in 1..(i - 1) : plan[j].kind \notin IccpKinds \cup {"iend"})
             => /\ Len(chunks) <= i
                /\ pc = "done" => (err = "" /\ iccProfile = <<>>)

\* the profile of the first of two iCCP chunks has been returned
C20_Witness ==
    /\ walker = "png" /\ seekable /\ file = PngFile(plan) /\ pc = "done" /\ err = ""
    /\ Len(plan) >= 2 /\ plan[1].kind = "iccp" /\ plan[2].kind = "iccp"
    /\ plan[2].data # plan[1].data
    /\ iccProfile = plan[1].data
    /\ Len(ChunkByType(chunks, typeICCP)) = 2

\* C21: after a length-bearing segment other than SOS (APP0, APP2 that does
\* not complete a profile, SOF0/1/2, any unrecognized marker) is handled
\* without error, the read position is the position of its length field plus
\* the declared length, for every declared length >= 2 (APP0 payloads of 5
\* bytes or fewer and APP2 payloads shorter than 14 bytes included).
C21_SegmentFraming ==
    [][(pc = "jpgSeg" /\ marker # markerSOS /\ pc' = "jpgMarker" /\ seekable /\ segLen >= 0)
          => pos' = lenPos + 2 + segLen]_vars

\* the input is a TIFF whose next-IFD offsets form a cycle
TifCyclic == walker = "tiff" /\ plan # <<>> /\ \E e \in {"LE", "BE"} : file = TifFileCyclic(e, plan)

\* C22: every call of each walker terminates, with a result or an error, on
\* every finite byte source (a TIFF whose next-IFD offsets form a cycle, a
\* JPEG whose segment length fields are 0 or 1, GIF and PNG inputs whose
\* sub-block or chunk lengths point past the end of the source included).
\* one step of a loop of a walker moves the read position on, or leaves the
\* loop: the blocks and sub-blocks of a GIF, the chunks of a PNG, the IFDs of
\* a TIFF, and the segments of a JPEG, where a marker is read past the last
\* one and the seek over a segment never goes back before its length field
LoopAdvances ==
    /\ pc \in {"gifBlock", "gifSkip", "gifRead", "pngChunk"}
          => (pos' > pos \/ pc' \in {"done", "pngFind"})
    /\ pc = "tifIFD" => pc' # "tifIFD"
    /\ pc = "jpgMarker" => (pos' > pos \/ pc' = "done")
    /\ (pc = "jpgLen" /\ pc' = "jpgSeg") => lenPos' > lenPos
    /\ (pc = "jpgSeg" /\ pc' = "jpgMarker") => pos' >= lenPos

\* Each loop iteration strictly advances the read position or ends the call.
C22_Terminates == <>(pc = "done") /\ [][LoopAdvances]_vars

\* a call on a TIFF whose IFD chain is a cycle has returned
C22_Witness == TifCyclic /\ pc = "done" /\ numIFD >= 1

\* the raw value bytes of the entry of the call, where fetchRawData gets them
RawValues == { r.b : r \in { x \in { fetchRawDataWide(entry, endian, ok) : ok \in SeekAnswers } : x.err = "" } }

\* C23: getString, for an ASCII-typed entry, returns the raw value bytes with
\* exactly one trailing null byte removed if the last byte is null, and the
\* bytes unchanged if the last byte is not null, for every length >= 1; for
\* any other type it fails with the type-mismatch error.
C23_GetString ==
    (walker = "entry" /\ pc = "done" /\ ret.fn = "getString") =>
        IF entry.Type # tifTypeASCII THEN err = "type"
        ELSE \A b \in RawValues :
                (err = "" /\ Len(b) >= 1) =>
                    ret.val = IF b[Len(b)] = 0 THEN SubSeq(b, 1, Len(b) - 1) ELSE b

\* the integer in the first bytes of the value field (kept in `plan`), at the
\* width of the type, in the byte order of the directory, sign-extended
ValueFieldInt ==
    UnmarshalInts(SubSeq(plan, 1, tifTypeSize[entry.Type + 1]), endian, entry.Type)[1]

\* C24: getInt, for a count-1 entry of an integer type, returns the integer
\* encoded in the first typeSize bytes of the value field in the directory's
\* byte order, sign-extended for SBYTE, SSHORT and SLONG, under both byte
\* orders: it agrees with the single element getIntArray returns for the
\* same entry; it rejects a count other than 1 and the non-integer types.
C24_GetInt ==
    (walker = "entry" /\ pc = "done" /\ ret.fn = "getInt") =>
        IF entry.Count = 1 /\ IsIntType(entry.Type)
        THEN /\ err = ""
             /\ ret.val = ValueFieldInt
             /\ \A ok \in SeekAnswers :
                   LET a == getIntArray(entry, endian, ok)
                   IN  ok => (a.err = "" /\ a.val = <<ret.val>>)
        ELSE err # ""

====
